---- MODULE Spec2Model ----
(***************************************************************************)
(* Model of the conversational backend of Semantic-Search:                 *)
(*   backend/main.py         SessionManager, the FastAPI handlers and the  *)
(*                           background cleanup thread                     *)
(*   backend/agent/agent.py  RAGAgent and query_llm_with_context           *)
(*                                                                         *)
(* Tasks.  Every endpoint is an `async def` without a single `await`, so   *)
(* the event loop runs one handler to completion before it starts the      *)
(* next one (running).  The cleanup thread is a real thread and            *)
(* interleaves with the handlers between any two of their steps; the only  *)
(* thing it shares with them is SessionManager.sessions, guarded by        *)
(* SessionManager.lock (a non-reentrant threading.Lock).                   *)
(*                                                                         *)
(* Heap.  A ConversationBufferWindowMemory is an object: the session       *)
(* dictionary and the local variable `memory` of a handler hold references *)
(* to it (mem maps references to objects), so a handler can still hold the *)
(* memory of a session that has left the dictionary.                       *)
(*                                                                         *)
(* Library facts used (langchain):                                         *)
(*   - chat_memory.add_user_message / add_ai_message append one message to *)
(*     chat_memory.messages;                                               *)
(*   - the attribute k of ConversationBufferWindowMemory is read only by   *)
(*     load_memory_variables / buffer, which this program never calls;     *)
(*     chat_memory.messages is the whole list;                             *)
(*   - a memory object is truthy (it defines neither __bool__ nor          *)
(*     __len__), so `if memory` tests `memory is not None`.                *)
(* uuid.uuid4() is modelled as collision free: it returns an identifier    *)
(* that no session ever had and no client ever sent.                       *)
(* Requests.  The n-th /search request asks the n-th question; its other    *)
(* fields are drawn where the handler first passes them on (session_id and *)
(* max_memory at line 92, model at line 113).                              *)
(* The clock is observed in ticks of one cleanup period, and one step reads *)
(* it once.  Objects nobody references are freed, and a new object takes   *)
(* the lowest free reference.                                              *)
(***************************************************************************)
EXTENDS Integers, Sequences, FiniteSets, TLC

\* ------------------------------------------------------------------ bounds
\* /search requests started over a run
MaxRequests == 2
\* clock ticks over a run
MaxTicks == 2

\* --------------------------------------------------------------- constants
\* SessionManager(cleanup_hours = 24)
cleanup_hours == 24
\* hours between two observations of the clock
TickHours == cleanup_hours

\* Python's None, where a string is expected
None == "<None>"
\* `memory` is None
NoMemory == 0
\* nobody holds SessionManager.lock / the event loop
Free == -1

\* the event loop's handler slots and the cleanup thread
Handlers == {1, 2}
Cleaner == 0
Tasks == Handlers \cup {Cleaner}

\* values uuid.uuid4() returns, in the order it returns them
UuidPool == <<"u1", "u2", "u3", "u4">>
\* identifiers a client makes up
ClientIds == {"a"}

\* QueryRequest.user_input of the first, second, ... request
Questions == <<"hi", "price?", "thanks", "bye">>
\* QueryRequest.model; "openai" stands for every name get_llm does not know
Models == {"gemini", "huggingface", "openai"}
\* QueryRequest.max_memory
WindowSizes == {1, 2}
\* what a provider answers to a question
Answer(q) == "re: " \o q
\* what search_similar_products returns: product names, ranked
RetrievalResults == {<<"p2", "p1">>}
\* what search_google_serpapi returns
WebSnippets == {"snippet"}
\* search.web.search_google_serpapi(query): a snippet, or a failure
search_google_serpapi == [returns |-> WebSnippets, raises |-> TRUE]
\* the environment variables GEMINI_TOKEN and HF_TOKEN
TokenValues == {None, "key"}

VARIABLES
    sessions,      \* SessionManager.sessions: id -> [memory, created_at, last_accessed]
    mem,           \* heap: reference -> [k, messages]
    minted,        \* number of identifiers uuid4 has returned
    lock,          \* holder of SessionManager.lock, or Free
    running,       \* the handler the event loop is running, or Free
    h,             \* task -> its frame (kind, pc and local variables)
    now,           \* the clock, in hours
    started,       \* /search requests started
    gemini_llm,    \* RAGAgent.gemini_llm
    hf_llm         \* RAGAgent.hf_llm

store == <<sessions, mem, minted>>
agentVars == <<gemini_llm, hf_llm>>
vars == <<sessions, mem, minted, lock, running, h, now, started,
          gemini_llm, hf_llm>>

\* ----------------------------------------------------------------- frames
NoResult == [status |-> "none"]

Idle ==
    [kind |-> "none", pc |-> "idle", user_input |-> None, model |-> None,
     session_id |-> None, max_memory |-> 0, memory |-> NoMemory,
     semantic_results |-> <<>>, web_snippets |-> "", product_info |-> "",
     prompt |-> <<>>, response |-> None,
     to_remove |-> {}, result |-> NoResult]

Sleeping == [Idle EXCEPT !.kind = "periodic_cleanup", !.pc = "cleanup_old_sessions"]

\* messages of langchain: SystemMessage / HumanMessage / AIMessage
SystemMessage(c) == [type |-> "system", content |-> c]
HumanMessage(c) == [type |-> "human", content |-> c]
AIMessage(c) == [type |-> "ai", content |-> c]

\* the event loop runs one coroutine until it returns: no handler has an await
LoopInterleaved(t) == TRUE
LoopFree(t) == running \in {Free, t}

\* threading.Lock: acquire blocks while somebody holds it
LockAlwaysFree == TRUE
LockFree == lock = Free

\* RAGAgent.setup_models: a backend exists when its token is set and its
\* client could be constructed; without a token it stays None
SetupModels(token, llm, name) ==
    IF token # None THEN llm \in {None, name} ELSE llm = None

Init ==
    /\ sessions = <<>>
    /\ mem = <<>>
    /\ minted = 0
    /\ lock = Free
    /\ running = Free
    /\ h = [t \in Tasks |-> IF t = Cleaner THEN Sleeping ELSE Idle]
    /\ now = 0
    /\ started = 0
    /\ \E GEMINI_TOKEN \in TokenValues, HF_TOKEN \in TokenValues :
         /\ SetupModels(GEMINI_TOKEN, gemini_llm, "gemini-2.0-flash")
         /\ SetupModels(HF_TOKEN, hf_llm, "zephyr-7b-beta")

\* ------------------------------------------------------------------ clock
MaxTime == MaxTicks * TickHours

\* the clock moves on.  Only differences of clock readings are ever compared
\* (line 73), so it is observed while some session can still expire; a
\* critical section is short against a tick
Tick ==
    /\ now + TickHours <= MaxTime
    /\ lock = Free
    /\ \E sid \in DOMAIN sessions : now - sessions[sid].last_accessed <= cleanup_hours
    /\ now' = now + TickHours
    /\ UNCHANGED <<store, lock, running, h, started, agentVars>>

\* ---------------------------------------------------------------- helpers
Frame(t, f) == h' = [h EXCEPT ![t] = f]

MintedIds == {UuidPool[i] : i \in 1..minted}

\* identifiers a client can send: made up, or received in an earlier response
KnownIds == ClientIds \cup MintedIds

\* `del d[key]`
DelAll(d, keys) == [s \in {} |-> d[s]]
Del(d, keys) == [s \in DOMAIN d \ keys |-> d[s]]

\* `with self.lock:` entered
Enter(t, from, to) ==
    /\ h[t].pc = from
    /\ LockFree
    /\ lock' = t
    /\ Frame(t, [h[t] EXCEPT !.pc = to])

\* the lowest free reference
NewRef == CHOOSE r \in 1..(Cardinality(DOMAIN mem) + 1) :
            r \notin DOMAIN mem /\ \A q \in 1..(r - 1) : q \in DOMAIN mem

\* the objects still referenced by the dictionary ss or by a frame of hh
Collect(ss, hh) ==
    LET live == {ss[s].memory : s \in DOMAIN ss} \cup {hh[t].memory : t \in Tasks}
    IN [r \in DOMAIN mem \cap live |-> mem[r]]

\* the handler returns its response (or its exception) to the event loop, which
\* is free for the next request; its frame is gone
Return(t) ==
    /\ t \in Handlers
    /\ h[t].pc \in {"done", "aborted"}
    /\ Frame(t, Idle)
    /\ running' = Free
    /\ mem' = Collect(sessions, h')
    /\ UNCHANGED <<sessions, minted, lock, now, started, agentVars>>

\* --------------------------------------------------- SessionManager (main.py)
\* `if not session_id`
AbsentIsNone(sid) == sid = None
Absent(sid) == sid \in {None, ""}

\* main.py line 92 and get_or_create_session line 32
GetOrCreateEnter(t) ==
    /\ h[t].pc = "get_or_create_session"
    /\ LockFree
    /\ lock' = t
    /\ \E sid \in {None, ""} \cup KnownIds, k \in WindowSizes :
         Frame(t, [h[t] EXCEPT !.session_id = sid, !.max_memory = k,
                     !.pc = "get_or_create_session_cs"])
    /\ UNCHANGED <<store, running, now, started, agentVars>>

\* lines 38-42: ConversationBufferWindowMemory(k=max_memory, ...)
NewMemoryDefaultWindow(max_memory) == [k |-> 10, messages |-> <<>>]
NewMemory(max_memory) == [k |-> max_memory, messages |-> <<>>]

\* line 49: `['last_accessed'] = datetime.now()`
AccessedAndCreated(s) == [s EXCEPT !.last_accessed = now, !.created_at = now]
Accessed(s) == [s EXCEPT !.last_accessed = now]

\* get_or_create_session, lines 33-51
GetOrCreateSession(t) ==
    /\ h[t].pc = "get_or_create_session_cs"
    /\ LET f == h[t]
           sid == IF Absent(f.session_id) THEN UuidPool[minted + 1] ELSE f.session_id
       IN /\ minted' = IF Absent(f.session_id) THEN minted + 1 ELSE minted
          /\ IF sid \notin DOMAIN sessions
             THEN /\ mem' = mem @@ (NewRef :> NewMemory(f.max_memory))
                  /\ sessions' = sessions @@
                       (sid :> [memory |-> NewRef, created_at |-> now,
                                last_accessed |-> now])
             ELSE /\ mem' = [mem EXCEPT ![sessions[sid].memory].k = f.max_memory]
                  /\ sessions' = [sessions EXCEPT ![sid] = Accessed(@)]
          /\ Frame(t, [f EXCEPT !.session_id = sid, !.pc = "get_memory"])
    /\ lock' = Free
    /\ UNCHANGED <<running, now, started, agentVars>>

\* get_memory, line 54
GetMemoryEnter(t) ==
    /\ Enter(t, "get_memory", "get_memory_cs")
    /\ UNCHANGED <<store, running, now, started, agentVars>>

\* get_memory, lines 55-57; the caller goes on at `next`
GetMemoryBodyKeepsLock(t, kind, next) ==
    /\ h[t].pc = "get_memory_cs"
    /\ h[t].kind = kind
    /\ LET sid == h[t].session_id
           m == IF sid \in DOMAIN sessions THEN sessions[sid].memory ELSE NoMemory
       IN Frame(t, [h[t] EXCEPT !.memory = m, !.pc = next])
    /\ UNCHANGED <<store, lock, running, now, started, agentVars>>
GetMemoryBody(t, kind, next) ==
    /\ h[t].pc = "get_memory_cs"
    /\ h[t].kind = kind
    /\ LET sid == h[t].session_id
           m == IF sid \in DOMAIN sessions THEN sessions[sid].memory ELSE NoMemory
       IN Frame(t, [h[t] EXCEPT !.memory = m, !.pc = next])
    /\ lock' = Free
    /\ UNCHANGED <<store, running, now, started, agentVars>>

\* clear_session, line 61
ClearSessionEnter(t) ==
    /\ Enter(t, "clear_session", "clear_session_cs")
    /\ UNCHANGED <<store, running, now, started, agentVars>>

\* cleanup_old_sessions, line 69
CleanupEnter(t) ==
    /\ Enter(t, "cleanup_old_sessions", "cleanup_scan")
    /\ UNCHANGED <<store, running, now, started, agentVars>>

\* cleanup_old_sessions, line 73: `data['last_accessed'] < cutoff_time`
ExpiredAtOrBefore(last_accessed, cutoff_time) == last_accessed <= cutoff_time
Expired(last_accessed, cutoff_time) == last_accessed < cutoff_time

\* cleanup_old_sessions, lines 70-74
CleanupScan(t) ==
    /\ h[t].pc = "cleanup_scan"
    /\ LET cutoff_time == now - cleanup_hours
       IN Frame(t, [h[t] EXCEPT
             !.to_remove = {sid \in DOMAIN sessions :
                              Expired(sessions[sid].last_accessed, cutoff_time)},
             !.pc = "cleanup_delete"])
    /\ UNCHANGED <<store, lock, running, now, started, agentVars>>

\* cleanup_old_sessions, lines 75-77, and the return to its caller:
\* periodic_cleanup sleeps until its next round (lines 200-202),
\* cleanup_sessions answers (line 172)
CleanupDelete(t) ==
    /\ h[t].pc = "cleanup_delete"
    /\ sessions' = Del(sessions, h[t].to_remove)
    /\ lock' = Free
    /\ IF t = Cleaner
       THEN Frame(t, Sleeping)
       ELSE Frame(t, [h[t] EXCEPT !.pc = "done", !.to_remove = {},
                        !.result = [message |-> "Session cleanup completed"]])
    /\ mem' = Collect(sessions', h')
    /\ UNCHANGED <<minted, running, now, started, agentVars>>

\* ------------------------------------------------------ agent (agent/agent.py)
Raised == [raised |-> TRUE, value |-> None]
Value(v) == [raised |-> FALSE, value |-> v]

\* RAGAgent.get_llm
get_llm_unchecked(model) ==
    IF model = "huggingface" THEN Value("zephyr-7b-beta") ELSE Value("gemini-2.0-flash")
get_llm(model) ==
    IF model = "gemini" /\ gemini_llm # None THEN Value(gemini_llm)
    ELSE IF model = "huggingface" /\ hf_llm # None THEN Value(hf_llm)
    ELSE Raised

\* query_with_memory, lines 104-106: `except Exception`
except_reraise(model) == Raised
query_with_memory_except(model) ==
    Value("Error processing request with " \o model \o " model")

\* query_llm_with_context, lines 144-146: `except Exception`
fallback_except(model) == Value("Error processing request")

\* the strings the two handlers above return
ErrorMessages ==
    {query_with_memory_except(m).value : m \in Models} \cup
    {fallback_except(m).value : m \in Models}

\* an exception leaves the /search handler
Abort(t, where) ==
    Frame(t, [h[t] EXCEPT !.pc = "aborted",
                !.result = [status |-> "aborted", raised_in |-> where]])

\* the statement after the call of query_llm_with_context, or the exception
\* leaving the handler; the prompt of the call is gone
AfterQuery(t, f, r) ==
    IF r.raised
    THEN Abort(t, "query_llm_with_context")
    ELSE Frame(t, [f EXCEPT !.response = r.value, !.prompt = <<>>, !.pc = "append"])

\* query_with_memory, lines 67-80: the system message of the template, its
\* two placeholders filled in (the instructions are abridged)
SystemText(product_info, web_results) ==
    "You are an expert assistant.\nProduct Information:\n" \o product_info
    \o "\nWeb Search Results:\n" \o web_results
    \o "\nIMPORTANT INSTRUCTIONS: review the conversation history."

\* query_with_memory, lines 66-100: what prompt.invoke renders from the
\* template and the arguments of chain.invoke: the system message,
\* MessagesPlaceholder("chat_history"), ("human", "{user_input}")
ChatPromptReversed(user_input, product_info, web_results, chat_history) ==
    <<SystemMessage(SystemText(product_info, web_results)), HumanMessage(user_input)>>
    \o chat_history
ChatPrompt(user_input, product_info, web_results, chat_history) ==
    <<SystemMessage(SystemText(product_info, web_results))>>
    \o chat_history
    \o <<HumanMessage(user_input)>>

\* query_llm_with_context, lines 134-142: the f-string, which llm.invoke takes
\* as one human message
SimplePrompt(user_input, product_info, web_results) ==
    <<HumanMessage("Based on the following information, answer the question:\nProduct Info: "
                   \o product_info \o "\nWeb Results: " \o web_results
                   \o "\nQuestion: " \o user_input \o "\nAnswer:")>>

\* main.py line 113, query_llm_with_context line 122, then get_llm inside the
\* try of query_with_memory (line 63) or of the fallback (line 133)
QueryLlmWithContext(t) ==
    /\ h[t].pc = "query_llm_with_context"
    /\ \E model \in Models :
         LET llm == get_llm(model)
             f == [h[t] EXCEPT !.model = model]
         IN IF ~llm.raised
            THEN IF f.memory # NoMemory
                 THEN Frame(t, [f EXCEPT
                        !.prompt = ChatPrompt(f.user_input, f.product_info,
                                              f.web_snippets, mem[f.memory].messages),
                        !.pc = "chain_invoke"])
                 ELSE Frame(t, [f EXCEPT
                        !.prompt = SimplePrompt(f.user_input, f.product_info,
                                                f.web_snippets),
                        !.pc = "llm_invoke"])
            ELSE IF f.memory # NoMemory
            THEN AfterQuery(t, f, query_with_memory_except(model))
            ELSE AfterQuery(t, f, fallback_except(model))
    /\ UNCHANGED <<store, lock, running, now, started, agentVars>>

\* chain.invoke (line 95) with the session's memory: the provider answers or raises
ChainInvokeRetries(t) ==
    /\ h[t].pc = "chain_invoke"
    /\ \/ AfterQuery(t, h[t], Value(Answer(h[t].user_input)))
       \/ Frame(t, [h[t] EXCEPT !.prompt = <<>>, !.pc = "query_llm_with_context"])
    /\ UNCHANGED <<store, lock, running, now, started, agentVars>>
ChainInvoke(t) ==
    /\ h[t].pc = "chain_invoke"
    /\ \/ AfterQuery(t, h[t], Value(Answer(h[t].user_input)))
       \/ AfterQuery(t, h[t], query_with_memory_except(h[t].model))
    /\ UNCHANGED <<store, lock, running, now, started, agentVars>>

\* llm.invoke (line 142) without memory: the provider answers or raises
LlmInvoke(t) ==
    /\ h[t].pc = "llm_invoke"
    /\ \/ AfterQuery(t, h[t], Value(Answer(h[t].user_input)))
       \/ AfterQuery(t, h[t], fallback_except(h[t].model))
    /\ UNCHANGED <<store, lock, running, now, started, agentVars>>

\* ------------------------------------------------------- collaborators
\* an item of search_similar_products (semantic_search.py lines 18-25)
Product(n) ==
    [product_name |-> n, category |-> "cat", actual_price |-> "9",
     img_link |-> n \o ".png", chunk_index |-> 0, description_chunk |-> "about " \o n]

RECURSIVE Join(_, _)
\* sep.join(lines)
Join(lines, sep) ==
    IF lines = <<>> THEN ""
    ELSE IF Len(lines) = 1 THEN lines[1]
    ELSE lines[1] \o sep \o Join(Tail(lines), sep)

\* main.py lines 102-105
ProductInfo(results) ==
    Join([i \in 1..Len(results) |->
            results[i].product_name \o " (" \o results[i].category \o ") - $"
            \o results[i].actual_price \o ": " \o results[i].description_chunk
            \o "\nImage: " \o results[i].img_link], "\n")

\* main.py line 98: search_similar_products returns its items or raises
\* (model.encode, collection.query); nothing catches it
SearchSimilarProducts(t) ==
    /\ h[t].pc = "search_similar_products"
    /\ \/ \E names \in RetrievalResults :
            Frame(t, [h[t] EXCEPT
               !.semantic_results = [i \in 1..Len(names) |-> Product(names[i])],
               !.pc = "search_google_serpapi"])
       \/ Abort(t, "search_similar_products")
    /\ UNCHANGED <<store, lock, running, now, started, agentVars>>

\* main.py line 99, then lines 102-105: search_google_serpapi returns a
\* snippet or fails; nothing catches it
SearchGoogleSerpapi(t) ==
    /\ h[t].pc = "search_google_serpapi"
    /\ \/ \E w \in search_google_serpapi.returns :
            Frame(t, [h[t] EXCEPT
               !.web_snippets = w,
               !.product_info = ProductInfo(h[t].semantic_results),
               !.pc = "query_llm_with_context"])
       \/ /\ search_google_serpapi.raises
          /\ Abort(t, "search_google_serpapi")
    /\ UNCHANGED <<store, lock, running, now, started, agentVars>>

\* ------------------------------------------------------ handlers (main.py)
\* a handler starts on the event loop, in the first free frame
Start(t, f) ==
    /\ t \in Handlers
    /\ h[t].pc = "idle"
    /\ \A u \in Handlers : u < t => h[u].pc # "idle"
    /\ LoopFree(t)
    /\ running' = t
    /\ Frame(t, f)

\* POST /search, lines 84-89
SearchStart(t) ==
    /\ started < MaxRequests
    /\ started' = started + 1
    /\ Start(t, [Idle EXCEPT !.kind = "search", !.pc = "get_or_create_session",
                    !.user_input = Questions[started + 1]])
    /\ UNCHANGED <<store, lock, now, agentVars>>

\* lines 117-118: `if memory:` and add_user_message
AddUserMessage(t) ==
    /\ h[t].pc = "append"
    /\ LET m == h[t].memory
       IN IF m # NoMemory
          THEN /\ mem' = [mem EXCEPT ![m].messages = Append(@, HumanMessage(h[t].user_input))]
               /\ Frame(t, [h[t] EXCEPT !.pc = "add_ai_message"])
          ELSE /\ Frame(t, [h[t] EXCEPT !.pc = "respond"])
               /\ UNCHANGED mem
    /\ UNCHANGED <<sessions, minted, lock, running, now, started, agentVars>>

\* line 119: add_ai_message
AddAiMessage(t) ==
    /\ h[t].pc = "add_ai_message"
    /\ mem' = [mem EXCEPT ![h[t].memory].messages = Append(@, AIMessage(h[t].response))]
    /\ Frame(t, [h[t] EXCEPT !.pc = "respond"])
    /\ UNCHANGED <<sessions, minted, lock, running, now, started, agentVars>>

\* line 126: `bool(memory and memory.chat_memory.messages)`
has_prior_history(memory) == memory # NoMemory /\ Len(mem[memory].messages) > 2
has_conversation_history(memory) == memory # NoMemory /\ mem[memory].messages # <<>>

\* lines 122-127
SearchRespond(t) ==
    /\ h[t].pc = "respond"
    /\ Frame(t, [h[t] EXCEPT !.pc = "done",
          !.result =
             [result |-> h[t].response,
              session_id |-> h[t].session_id,
              semantic_results_count |-> Len(h[t].semantic_results),
              has_conversation_history |-> has_conversation_history(h[t].memory)]])
    /\ UNCHANGED <<store, lock, running, now, started, agentVars>>

\* GET /session/{session_id}/history, line 133
HistoryStart(t) ==
    /\ \E sid \in KnownIds :
         Start(t, [Idle EXCEPT !.kind = "history", !.pc = "get_memory",
                     !.session_id = sid])
    /\ UNCHANGED <<store, lock, now, started, agentVars>>

\* lines 140-151: one entry per message, by its type
History(messages) ==
    LET Role(msg) == IF msg.type = "human" THEN "user"
                     ELSE IF msg.type = "ai" THEN "assistant" ELSE None
        known == SelectSeq(messages, LAMBDA msg : Role(msg) # None)
    IN [i \in 1..Len(known) |-> [role |-> Role(known[i]), content |-> known[i].content]]

\* lines 134-157
HistoryRespond(t) ==
    /\ h[t].pc = "history"
    /\ LET m == h[t].memory
       IN Frame(t, [h[t] EXCEPT !.pc = "done",
             !.result =
                IF m = NoMemory
                THEN [error |-> "Session not found", session_id |-> h[t].session_id]
                ELSE [session_id |-> h[t].session_id,
                      history |-> History(mem[m].messages),
                      message_count |-> Len(mem[m].messages)]])
    /\ UNCHANGED <<store, lock, running, now, started, agentVars>>

\* DELETE /session/{session_id}, line 162
ClearStart(t) ==
    /\ \E sid \in KnownIds :
         Start(t, [Idle EXCEPT !.kind = "clear", !.pc = "clear_session",
                     !.session_id = sid])
    /\ UNCHANGED <<store, lock, now, started, agentVars>>

\* SessionManager.clear_session lines 62-65, then lines 163-166
ClearSessionLeaksLock(t) ==
    /\ h[t].pc = "clear_session_cs"
    /\ LET sid == h[t].session_id
           success == sid \in DOMAIN sessions
       IN /\ sessions' = IF success THEN Del(sessions, {sid}) ELSE sessions
          /\ lock' = IF success THEN Free ELSE lock
          /\ Frame(t, [h[t] EXCEPT !.pc = "done",
                !.result =
                   [success |-> success,
                    message |-> IF success THEN "Session " \o sid \o " cleared"
                                ELSE "Session not found"]])
    /\ mem' = Collect(sessions', h')
    /\ UNCHANGED <<minted, running, now, started, agentVars>>
ClearSession(t) ==
    /\ h[t].pc = "clear_session_cs"
    /\ LET sid == h[t].session_id
           success == sid \in DOMAIN sessions
       IN /\ sessions' = IF success THEN Del(sessions, {sid}) ELSE sessions
          /\ Frame(t, [h[t] EXCEPT !.pc = "done",
                !.result =
                   [success |-> success,
                    message |-> IF success THEN "Session " \o sid \o " cleared"
                                ELSE "Session not found"]])
    /\ lock' = Free
    /\ mem' = Collect(sessions', h')
    /\ UNCHANGED <<minted, running, now, started, agentVars>>

\* POST /sessions/cleanup, line 171
CleanupStart(t) ==
    /\ Start(t, [Idle EXCEPT !.kind = "cleanup", !.pc = "cleanup_old_sessions"])
    /\ UNCHANGED <<store, lock, now, started, agentVars>>

\* GET /sessions/stats, line 175
StatsStart(t) ==
    /\ Start(t, [Idle EXCEPT !.kind = "stats", !.pc = "stats"])
    /\ UNCHANGED <<store, lock, now, started, agentVars>>

\* line 177
StatsEnter(t) ==
    /\ Enter(t, "stats", "stats_cs")
    /\ UNCHANGED <<store, running, now, started, agentVars>>

\* lines 178-193
Stats(t) ==
    /\ h[t].pc = "stats_cs"
    /\ Frame(t, [h[t] EXCEPT !.pc = "done",
          !.result =
             [total_sessions |-> Cardinality(DOMAIN sessions),
              sessions |-> {[session_id |-> sid,
                             message_count |-> Len(mem[sessions[sid].memory].messages),
                             created_at |-> sessions[sid].created_at,
                             last_accessed |-> sessions[sid].last_accessed] :
                            sid \in DOMAIN sessions}]])
    /\ lock' = Free
    /\ UNCHANGED <<store, running, now, started, agentVars>>

\* ------------------------------------------------------------ specification
Next ==
    \/ Tick
    \/ \E t \in Tasks :
         \/ CleanupEnter(t)
         \/ CleanupScan(t)
         \/ CleanupDelete(t)
    \/ \E t \in Handlers :
         \/ SearchStart(t)
         \/ GetOrCreateEnter(t)
         \/ GetOrCreateSession(t)
         \/ GetMemoryEnter(t)
         \/ GetMemoryBody(t, "search", "search_similar_products")
         \/ GetMemoryBody(t, "history", "history")
         \/ SearchSimilarProducts(t)
         \/ SearchGoogleSerpapi(t)
         \/ QueryLlmWithContext(t)
         \/ ChainInvoke(t)
         \/ LlmInvoke(t)
         \/ AddUserMessage(t)
         \/ AddAiMessage(t)
         \/ SearchRespond(t)
         \/ HistoryStart(t)
         \/ HistoryRespond(t)
         \/ ClearStart(t)
         \/ ClearSessionEnter(t)
         \/ ClearSession(t)
         \/ CleanupStart(t)
         \/ StatsStart(t)
         \/ StatsEnter(t)
         \/ Stats(t)
         \/ Return(t)

Spec == Init /\ [][Next]_vars

\* ------------------------------------------------------------- scheduling
\* `with self.lock:` entered by task t (lines 32, 54, 61, 69, 177)
Acquire(t) ==
    \/ GetOrCreateEnter(t)
    \/ GetMemoryEnter(t)
    \/ ClearSessionEnter(t)
    \/ CleanupEnter(t)
    \/ StatsEnter(t)

\* any other statement of a task that has started; a call of a collaborator or
\* of a provider returns or raises
Proceed(t) ==
    \/ CleanupScan(t)
    \/ CleanupDelete(t)
    \/ GetOrCreateSession(t)
    \/ GetMemoryBody(t, "search", "search_similar_products")
    \/ GetMemoryBody(t, "history", "history")
    \/ SearchSimilarProducts(t)
    \/ SearchGoogleSerpapi(t)
    \/ QueryLlmWithContext(t)
    \/ ChainInvoke(t)
    \/ LlmInvoke(t)
    \/ AddUserMessage(t)
    \/ AddAiMessage(t)
    \/ SearchRespond(t)
    \/ HistoryRespond(t)
    \/ ClearSession(t)
    \/ Stats(t)
    \/ Return(t)

\* the event-loop thread and the cleanup thread both get to run, and a thread
\* that waits for the lock gets it: periodic_cleanup sleeps an hour between two
\* sweeps (line 201) and every critical section ends
Fairness ==
    \A t \in Tasks : WF_vars(Proceed(t)) /\ SF_vars(Acquire(t))

\* the deployment with GEMINI_TOKEN set and HF_TOKEN unset, Gemini's client
\* constructed
InitGemini == Init /\ gemini_llm # None /\ hf_llm = None

FairSpec == InitGemini /\ [][Next]_vars /\ Fairness

\* ================================================================ properties
SearchFrames == {t \in Handlers : h[t].kind = "search"}
Messages(t) == mem[h[t].memory].messages
Leaves(t, pc) == h[t].pc = pc /\ h'[t].pc # pc

\* every exchange of the sequence was answered by the provider
Completed(messages) == \A i \in 1..Len(messages) : messages[i].content \notin ErrorMessages

\* C1: after a request has appended its exchange the session holds at most
\* 2 * K turns (K the window size the request gave), and a history read returns
\* at most 2 * K turns of a session of window size K (sessions of completed
\* exchanges only).
C1_WindowedHistory ==
    /\ \A t \in SearchFrames :
         /\ h[t].pc \in {"respond", "done"}
         /\ h[t].memory # NoMemory
         /\ Completed(Messages(t))
         => Len(Messages(t)) <= 2 * h[t].max_memory
    /\ \A t \in Handlers :
         /\ h[t].kind = "history"
         /\ h[t].pc = "done"
         /\ h[t].memory # NoMemory
         /\ Completed(Messages(t))
         => /\ h[t].result.message_count <= 2 * mem[h[t].memory].k
            /\ Len(h[t].result.history) <= 2 * mem[h[t].memory].k

\* C2: a request whose model invocation failed (its response is one of the
\* error messages) appends nothing: its question is not in the session.
C2_FailedExchangeNotAppended ==
    \A t \in SearchFrames :
       h[t].memory # NoMemory /\ h[t].response \in ErrorMessages
          => \A i \in 1..Len(Messages(t)) : Messages(t)[i].content # h[t].user_input

\* a request is between add_user_message and add_ai_message on the object r
Appending(r) == \E t \in SearchFrames : h[t].pc = "add_ai_message" /\ h[t].memory = r

\* turns come in whole exchanges: a user turn, then the assistant turn of the
\* same request (the provider's answer to that question, or an error message)
Paired(messages) ==
    /\ Len(messages) % 2 = 0
    /\ \A i \in 1..Len(messages) :
         IF i % 2 = 1
         THEN messages[i].type = "human"
         ELSE /\ messages[i].type = "ai"
              /\ messages[i].content \in {Answer(messages[i - 1].content)} \cup ErrorMessages

IsPrefix(a, b) == Len(a) <= Len(b) /\ \A i \in 1..Len(a) : a[i] = b[i]

\* C3, as stated: in every reachable state every turn sequence has even length
\* and is a concatenation of whole exchanges.
C3_AlwaysWholeExchanges == \A r \in DOMAIN mem : Paired(mem[r].messages)

\* C3, amended: no two requests are in flight at once; every turn sequence is
\* a concatenation of whole exchanges, except that the request that is between
\* its two add calls has put its user turn last; no step removes or changes a
\* turn of an object that stays; and a request that has appended finds its own
\* exchange last.
C3_WholeExchanges ==
    /\ [](\A t \in Handlers, u \in Handlers :
            h[t].pc # "idle" /\ h[u].pc # "idle" => t = u)
    /\ [](\A r \in DOMAIN mem :
            IF Appending(r)
            THEN /\ Len(mem[r].messages) % 2 = 1
                 /\ Paired(SubSeq(mem[r].messages, 1, Len(mem[r].messages) - 1))
                 /\ \E t \in SearchFrames :
                      /\ h[t].pc = "add_ai_message" /\ h[t].memory = r
                      /\ mem[r].messages[Len(mem[r].messages)] = HumanMessage(h[t].user_input)
            ELSE Paired(mem[r].messages))
    /\ [](\A t \in SearchFrames :
            h[t].pc \in {"respond", "done"} /\ h[t].memory # NoMemory
               => LET n == Len(Messages(t))
                  IN /\ n >= 2
                     /\ Messages(t)[n - 1] = HumanMessage(h[t].user_input)
                     /\ Messages(t)[n] = AIMessage(h[t].response))
    /\ [][\A r \in DOMAIN mem \cap DOMAIN mem' :
            IsPrefix(mem[r].messages, mem'[r].messages)]_vars

\* two requests have appended to the same session, one after the other
C3_Witness ==
    \E t \in SearchFrames :
       h[t].pc = "done" /\ h[t].memory # NoMemory /\ Len(Messages(t)) = 4

\* a sweep is inside its critical section
Sweeping(t) == h[t].pc \in {"cleanup_scan", "cleanup_delete"}

\* the object of a session and its record
SameSession(sid) ==
    /\ sessions'[sid] = sessions[sid]
    /\ mem'[sessions[sid].memory] = mem[sessions[sid].memory]

\* C4: a sweep at time now removes exactly the sessions with
\* now - last_accessed > cleanup_hours (one at exactly cleanup_hours stays) and
\* leaves the others as they are; while a sweep is executing no session is
\* resolved, so it removes none that was.
C4_SweepRemovesExpired ==
    [][\A t \in Tasks :
         /\ Leaves(t, "cleanup_delete") =>
              \A sid \in DOMAIN sessions :
                 /\ sid \notin DOMAIN sessions'
                      <=> now - sessions[sid].last_accessed > cleanup_hours
                 /\ sid \in DOMAIN sessions' => SameSession(sid)
         /\ Sweeping(t) =>
              \A u \in Handlers : ~Leaves(u, "get_or_create_session_cs")]_vars

\* a sweep is removing one session and keeping one that is exactly
\* cleanup_hours old
C4_Witness ==
    \E t \in Tasks :
       /\ h[t].pc = "cleanup_delete"
       /\ h[t].to_remove # {}
       /\ \E sid \in DOMAIN sessions \ h[t].to_remove :
            now - sessions[sid].last_accessed = cleanup_hours

\* C5: resolve with an absent identifier (None or empty) creates a session under
\* an identifier that was not in the store and that no client knew; resolve
\* with an identifier in the store returns it and creates nothing.
C5_ResolveIdentifier ==
    [][\A t \in Handlers :
         Leaves(t, "get_or_create_session_cs") =>
            LET arg == h[t].session_id
                sid == h'[t].session_id
            IN /\ arg \in {None, ""} =>
                    /\ sid \notin DOMAIN sessions
                    /\ sid \notin KnownIds \cup {None, ""}
                    /\ DOMAIN sessions' = DOMAIN sessions \cup {sid}
               /\ arg \in DOMAIN sessions =>
                    /\ sid = arg
                    /\ DOMAIN sessions' = DOMAIN sessions]_vars

\* an identifier was minted for a request without one, and the next request
\* has come back with it and found its session
C5_Witness ==
    \E t \in SearchFrames :
       /\ h[t].pc = "get_memory"
       /\ h[t].session_id = UuidPool[1]
       /\ started = 2
       /\ UuidPool[1] \in DOMAIN sessions
       /\ mem[sessions[UuidPool[1]].memory].messages # <<>>

\* a new session of window size k under sid: empty history
Created(sid, k) ==
    /\ sid \notin DOMAIN sessions
    /\ sid \in DOMAIN sessions'
    /\ sessions'[sid].memory \notin DOMAIN mem
    /\ mem'[sessions'[sid].memory] = [k |-> k, messages |-> <<>>]

\* a resolve step of t whose identifier is supplied and not in the store
ResolvesUnknown(t) ==
    /\ Leaves(t, "get_or_create_session_cs")
    /\ h[t].session_id \notin {None, ""}
    /\ h[t].session_id \notin DOMAIN sessions

\* C6, as stated: resolve with a supplied identifier the store does not know
\* creates a session of the given window size and returns a freshly minted
\* identifier.
C6_UnknownIdMinted ==
    [][\A t \in Handlers :
         ResolvesUnknown(t) =>
            /\ h'[t].session_id # h[t].session_id
            /\ h'[t].session_id \notin KnownIds
            /\ Created(h'[t].session_id, h[t].max_memory)]_vars

\* C6, amended: resolve with a supplied identifier the store does not know
\* creates a session with empty history and the given window size under that
\* identifier, returns that identifier and mints none.
C6_UnknownIdAdopted ==
    [][\A t \in Handlers :
         ResolvesUnknown(t) =>
            /\ h'[t].session_id = h[t].session_id
            /\ minted' = minted
            /\ Created(h[t].session_id, h[t].max_memory)
            /\ DOMAIN sessions' = DOMAIN sessions \cup {h[t].session_id}]_vars

\* a session exists under an identifier a client made up
C6_Witness ==
    \E t \in SearchFrames :
       /\ h[t].pc = "get_memory"
       /\ h[t].session_id \in ClientIds
       /\ mem[sessions[h[t].session_id].memory] =
             [k |-> h[t].max_memory, messages |-> <<>>]

\* C7: clear of an identifier not in the store answers false and changes
\* nothing; clear of one in the store answers true and removes that session
\* alone; a history read answers "Session not found" exactly when the
\* identifier is not in the store, and only resolve puts one back.
C7_ClearSession ==
    [][\A t \in Handlers :
         /\ Leaves(t, "clear_session_cs") =>
              LET sid == h[t].session_id
              IN IF sid \in DOMAIN sessions
                 THEN /\ h'[t].result.success = TRUE
                      /\ DOMAIN sessions' = DOMAIN sessions \ {sid}
                      /\ \A o \in DOMAIN sessions' : SameSession(o)
                 ELSE /\ h'[t].result.success = FALSE
                      /\ h'[t].result.message = "Session not found"
                      /\ sessions' = sessions
                      /\ mem' = mem
         /\ h[t].kind = "history" /\ Leaves(t, "get_memory_cs") =>
              (h'[t].memory = NoMemory <=> h[t].session_id \notin DOMAIN sessions)
         /\ Leaves(t, "history") =>
              IF h[t].memory = NoMemory
              THEN h'[t].result =
                     [error |-> "Session not found", session_id |-> h[t].session_id]
              ELSE "error" \notin DOMAIN h'[t].result
         /\ \A sid \in DOMAIN sessions' \ DOMAIN sessions :
              \E u \in Handlers :
                 Leaves(u, "get_or_create_session_cs") /\ h'[u].session_id = sid]_vars

\* a history read of an identifier that was in the store answers "Session not
\* found" while another session is still there
C7_Witness ==
    \E t \in Handlers :
       /\ h[t].kind = "history"
       /\ h[t].pc = "done"
       /\ h[t].result = [error |-> "Session not found", session_id |-> UuidPool[1]]
       /\ now = 0
       /\ DOMAIN sessions # {}

\* C8: a failure of the retrieval or of the web search does not abort the
\* request.
C8_CollaboratorFailureDegrades ==
    \A t \in SearchFrames : h[t].pc # "aborted"

\* the backend name is not registered, or its backend does not exist (no
\* credential at startup, or its client could not be constructed)
Unavailable(model) ==
    \/ model \notin {"gemini", "huggingface"}
    \/ model = "gemini" /\ gemini_llm = None
    \/ model = "huggingface" /\ hf_llm = None

\* a provider call is in progress
Invoking(t) == h[t].pc \in {"chain_invoke", "llm_invoke"}

\* C9: an invocation with a backend name that is not registered or whose
\* backend does not exist returns an error message without a provider call,
\* with memory and without.
C9_FailsClosed ==
    /\ [](\A t \in SearchFrames : Invoking(t) => ~Unavailable(h[t].model))
    /\ [][\A t \in Handlers :
            Leaves(t, "query_llm_with_context") /\ Unavailable(h'[t].model) =>
               /\ h'[t].pc = "append"
               /\ h'[t].response =
                    IF h[t].memory # NoMemory
                    THEN "Error processing request with " \o h'[t].model \o " model"
                    ELSE "Error processing request"]_vars

\* the memory-less path has answered an unregistered backend name
C9_Witness ==
    \E t \in SearchFrames :
       /\ h[t].pc = "append"
       /\ h[t].memory = NoMemory
       /\ h[t].model = "openai"
       /\ h[t].response = "Error processing request"

\* C10: query_llm_with_context never raises: it returns the provider's answer
\* or, when get_llm or the provider call raised, its error message.
C10_GatewayReturns ==
    /\ [](\A t \in SearchFrames :
            h[t].pc = "aborted" => h[t].result.raised_in # "query_llm_with_context")
    /\ [][\A t \in Handlers :
            /\ Leaves(t, "query_llm_with_context") =>
                 h'[t].pc \in {"chain_invoke", "llm_invoke", "append"}
            /\ Leaves(t, "chain_invoke") =>
                 /\ h'[t].pc = "append"
                 /\ h'[t].response \in
                      {Answer(h[t].user_input),
                       "Error processing request with " \o h[t].model \o " model"}
            /\ Leaves(t, "llm_invoke") =>
                 /\ h'[t].pc = "append"
                 /\ h'[t].response \in
                      {Answer(h[t].user_input), "Error processing request"}]_vars

\* the provider call of an existing backend raised, with memory
C10_Witness ==
    \E t \in SearchFrames :
       /\ h[t].pc = "append"
       /\ h[t].memory # NoMemory
       /\ ~Unavailable(h[t].model)
       /\ h[t].response \in ErrorMessages

\* a /search request holds the memory of a session that has left the store
Detached(t) ==
    /\ h[t].kind = "search"
    /\ h[t].memory # NoMemory
    /\ h[t].session_id \notin DOMAIN sessions

\* the two add calls of t change the object t holds and nothing else
AppendsToOwnObject(t) ==
    Leaves(t, "append") \/ Leaves(t, "add_ai_message") =>
       /\ sessions' = sessions
       /\ DOMAIN mem' = DOMAIN mem
       /\ \A r \in DOMAIN mem \ {h[t].memory} : mem'[r] = mem[r]
       /\ Len(mem'[h[t].memory].messages) = Len(mem[h[t].memory].messages) + 1

\* a resolve of an identifier that is not in the store creates a session with
\* no turns, in an object no frame holds
RecreatedEmpty ==
    \A u \in Handlers :
       Leaves(u, "get_or_create_session_cs") /\ h'[u].session_id \notin DOMAIN sessions =>
          /\ Created(h'[u].session_id, h[u].max_memory)
          /\ \A t \in Tasks : h[t].memory # sessions'[h'[u].session_id].memory

\* the part of C11 that is about the store: the appends of a request whose
\* session was removed leave the index and every other object alone, its
\* response carries the provider's answer, and the identifier's next resolve
\* starts from an empty history
EvictionLeavesStoreAlone ==
    [][/\ \A t \in Handlers :
            Detached(t) =>
               /\ AppendsToOwnObject(t)
               /\ Leaves(t, "respond") =>
                    /\ h'[t].pc = "done"
                    /\ h'[t].result.result = h[t].response
                    /\ h'[t].result.session_id = h[t].session_id
       /\ RecreatedEmpty]_vars

\* C11: a /search request whose session a sweep (or a clear) removed after the
\* request obtained its memory still completes with a response (no step of it
\* raises), its appends neither put the session back into the index nor alter
\* another session, and the next resolve of the identifier creates a session
\* with empty history.
C11_EvictedRequestCompletes ==
    [][/\ \A t \in Handlers :
            Detached(t) =>
               /\ h'[t].pc # "aborted"
               /\ AppendsToOwnObject(t)
               /\ Leaves(t, "respond") =>
                    /\ h'[t].pc = "done"
                    /\ h'[t].result.result = h[t].response
       /\ RecreatedEmpty]_vars

\* a request has answered from the memory of a session that is gone
EvictedRequestAnswered ==
    \E t \in SearchFrames :
       Detached(t) /\ h[t].pc = "done" /\ Len(Messages(t)) = 2

\* the pcs inside `with self.lock:`
CriticalSections ==
    {"get_or_create_session_cs", "get_memory_cs", "clear_session_cs",
     "cleanup_scan", "cleanup_delete", "stats_cs"}

\* a retrieval, web-search or model-backend call of t is in progress
Calling(t) ==
    h[t].pc \in {"search_similar_products", "search_google_serpapi",
                 "query_llm_with_context", "chain_invoke", "llm_invoke"}

\* C12: no task holds the store's lock while one of its retrieval, web-search
\* or model-backend calls is in progress; the holder of the lock is inside
\* resolve, memory lookup, clear, sweep or stats.
C12_NoLockAcrossCalls ==
    /\ lock \in Tasks \cup {Free}
    /\ \A t \in Tasks :
         /\ Calling(t) => lock # t
         /\ lock = t => h[t].pc \in CriticalSections

\* a provider call is in progress while the cleanup thread is inside its sweep
C12_Witness ==
    \E t \in SearchFrames : h[t].pc = "chain_invoke" /\ lock = Cleaner

\* how far a /search request has come
Stage(pc) ==
    CASE pc = "get_or_create_session" -> 1
      [] pc = "get_or_create_session_cs" -> 2
      [] pc = "get_memory" -> 3
      [] pc = "get_memory_cs" -> 4
      [] pc = "search_similar_products" -> 5
      [] pc = "search_google_serpapi" -> 6
      [] pc = "query_llm_with_context" -> 7
      [] pc \in {"chain_invoke", "llm_invoke"} -> 8
      [] pc = "append" -> 9
      [] pc = "add_ai_message" -> 10
      [] pc = "respond" -> 11
      [] pc \in {"done", "aborted"} -> 12

\* C13: a /search request never goes back to a statement it has passed, so it
\* enters the gateway once and makes at most one provider call (with memory or
\* without, never both); a provider call that ends, well or badly, is followed
\* by the append, not by another call; and every request that has entered the
\* gateway reaches its response.
C13_BoundedInvocation ==
    /\ [][\A t \in Handlers :
            /\ h[t].kind = "search" /\ h'[t].kind = "search" /\ h'[t].pc # h[t].pc
                 => Stage(h'[t].pc) > Stage(h[t].pc)
            /\ Leaves(t, "chain_invoke") \/ Leaves(t, "llm_invoke")
                 => h'[t].pc = "append"]_vars
    /\ \A t \in Handlers :
         (h[t].kind = "search" /\ h[t].pc = "query_llm_with_context")
            ~> (h[t].kind = "search" /\ h[t].pc = "done")

\* a request whose provider call raised has responded with the error message,
\* the provider not called again
C13_Witness ==
    \E t \in SearchFrames :
       /\ h[t].pc = "done"
       /\ ~Unavailable(h[t].model)
       /\ h[t].response \in ErrorMessages
       /\ h[t].result.result = h[t].response

RECURSIVE Size(_)
\* the rendered size of a prompt, in characters
Size(prompt) ==
    IF prompt = <<>> THEN 0 ELSE Len(prompt[1].content) + Size(Tail(prompt))

\* the history turns of a prompt: what stands between its first and its last
\* message
PriorTurns(prompt) == SubSeq(prompt, 2, Len(prompt) - 1)

IsSuffix(a, b) ==
    Len(a) <= Len(b) /\ \A i \in 1..Len(a) : a[i] = b[Len(b) - Len(a) + i]

\* size limits, in characters: one below every prompt, one above every prompt
SizeLimits == {10, 10000}

\* C14: for every size limit, the prompt of a provider call keeps the new user
\* turn and, with memory, the system message with both blocks; its history
\* turns are the newest of the session (the oldest are the ones dropped); and
\* if it still exceeds the limit it has no history turn left.
C14_PromptTruncated ==
    \A t \in SearchFrames :
       Invoking(t) =>
          LET p == h[t].prompt
          IN /\ p # <<>>
             /\ p[Len(p)].type = "human"
             /\ h[t].memory # NoMemory =>
                  /\ p[1] = SystemMessage(SystemText(h[t].product_info, h[t].web_snippets))
                  /\ p[Len(p)] = HumanMessage(h[t].user_input)
                  /\ IsSuffix(PriorTurns(p), Messages(t))
             /\ \A sizeLimit \in SizeLimits :
                  Size(p) > sizeLimit => PriorTurns(p) = <<>>

RECURSIVE ProductBlock(_)
\* the product block: one entry per retrieved item, first item first
ProductBlock(results) ==
    IF results = <<>> THEN ""
    ELSE LET s == Head(results)
             entry == s.product_name \o " (" \o s.category \o ") - $" \o s.actual_price
                      \o ": " \o s.description_chunk \o "\nImage: " \o s.img_link
         IN IF Len(results) = 1 THEN entry
            ELSE entry \o "\n" \o ProductBlock(Tail(results))

\* C15: the prompt of a provider call with memory is the system message
\* carrying the product block (the retrieved items in the order they were
\* returned) and the web block, then the session's turns oldest to newest, then
\* the new user turn, which is not yet in the session and so stands in the
\* prompt once; without memory it is one message with the same blocks and the
\* question.
C15_PromptOrder ==
    \A t \in SearchFrames :
       LET p == h[t].prompt
           user_turn == HumanMessage(h[t].user_input)
           block == ProductBlock(h[t].semantic_results)
       IN /\ h[t].pc = "chain_invoke" =>
               /\ Len(p) = Len(Messages(t)) + 2
               /\ p[1] = SystemMessage(SystemText(block, h[t].web_snippets))
               /\ \A i \in 1..Len(Messages(t)) : p[i + 1] = Messages(t)[i]
               /\ p[Len(p)] = user_turn
               /\ \A i \in 1..Len(Messages(t)) : Messages(t)[i] # user_turn
               /\ Cardinality({i \in 1..Len(p) : p[i] = user_turn}) = 1
          /\ h[t].pc = "llm_invoke" =>
               /\ h[t].memory = NoMemory
               /\ p = SimplePrompt(h[t].user_input, block, h[t].web_snippets)

\* a provider call whose prompt carries an earlier exchange of the session
C15_Witness ==
    \E t \in SearchFrames :
       /\ h[t].pc = "chain_invoke"
       /\ Len(h[t].prompt) = 4
       /\ h[t].prompt[2] = HumanMessage(Questions[1])
       /\ h[t].prompt[3] = AIMessage(Answer(Questions[1]))
       /\ Len(h[t].semantic_results) = 2

\* a resolve step of t whose identifier is in the store
ResolvesKnown(t) ==
    /\ Leaves(t, "get_or_create_session_cs")
    /\ h[t].session_id \in DOMAIN sessions

\* what resolve on a known identifier changes and what it leaves alone
ResolveKnownEffect(t) ==
    ResolvesKnown(t) =>
       LET sid == h[t].session_id
           r == sessions[sid].memory
       IN /\ h'[t].session_id = sid
          /\ DOMAIN sessions' = DOMAIN sessions
          /\ sessions'[sid] = [memory |-> r, created_at |-> sessions[sid].created_at,
                               last_accessed |-> now]
          /\ mem'[r] = [k |-> h[t].max_memory, messages |-> mem[r].messages]
          /\ \A o \in DOMAIN sessions \ {sid} : SameSession(o)

\* the part of C16 that is about the resolve step itself
ResolveKnownUpdates == [][\A t \in Handlers : ResolveKnownEffect(t)]_vars

\* C16: resolve on a known identifier sets the session's window size to the
\* given value and its last-accessed time to now and leaves its turns, its
\* creation time and every other session unchanged; the window size is in
\* effect when the next append has trimmed: the session then holds at most
\* 2 * k turns.
C16_ResolveKnownThenTrim ==
    [][\A t \in Handlers :
         /\ ResolveKnownEffect(t)
         /\ Leaves(t, "add_ai_message") =>
              Len(mem'[h[t].memory].messages) <= 2 * mem'[h[t].memory].k]_vars

\* a known session has been resolved with another window size, later
ResolvedKnownAgain ==
    \E t \in SearchFrames :
       /\ h[t].pc = "get_memory"
       /\ h[t].session_id \in DOMAIN sessions
       /\ sessions[h[t].session_id].last_accessed > sessions[h[t].session_id].created_at
       /\ mem[sessions[h[t].session_id].memory].messages # <<>>

\* a /search request looked its session up and found none: the session it had
\* resolved was removed in between
Orphaned(t) ==
    /\ h[t].kind = "search"
    /\ h[t].memory = NoMemory
    /\ h[t].pc \notin {"idle", "get_or_create_session", "get_or_create_session_cs",
                       "get_memory", "get_memory_cs"}

\* the part of C17 that is about the path taken: the call goes to the
\* memory-less branch, no step of the request changes the store, and the
\* response says has_conversation_history = false with an identifier that is
\* not in the store
MemorylessPath(t) ==
    /\ h'[t].pc # "chain_invoke"
    /\ h'[t].pc = "aborted" => h'[t].result.raised_in # "query_llm_with_context"
    /\ h'[t] # h[t] => sessions' = sessions /\ mem' = mem
    /\ Leaves(t, "append") => h'[t].pc = "respond"
    /\ Leaves(t, "respond") =>
         /\ h'[t].pc = "done"
         /\ h'[t].result.result = h[t].response
         /\ h'[t].result.has_conversation_history = FALSE
         /\ h'[t].result.session_id = h[t].session_id
         /\ h'[t].result.session_id \notin DOMAIN sessions'

OrphanedTakesMemorylessPath ==
    [][\A t \in Handlers : Orphaned(t) => MemorylessPath(t)]_vars

\* C17: a /search request whose session was removed between its resolve and
\* its memory lookup does not fail (no step of it raises): it takes the
\* memory-less path, appends nothing, and responds has_conversation_history =
\* false with a session_id that is not in the store.
C17_OrphanedRequestCompletes ==
    [][\A t \in Handlers :
         Orphaned(t) => h'[t].pc # "aborted" /\ MemorylessPath(t)]_vars

\* such a request has responded
OrphanedRequestAnswered ==
    \E t \in SearchFrames :
       /\ h[t].pc = "done"
       /\ h[t].memory = NoMemory
       /\ h[t].response = Answer(h[t].user_input)

\* C18: for every session in the store created_at <= last_accessed; while a
\* session stays in the store its created_at does not change and its
\* last_accessed does not decrease, and last_accessed changes only in a
\* resolve of that identifier, to the time of the resolve: memory lookups,
\* history reads, stats, appends and the sweeps and clears of other sessions
\* leave it as it is.
C18_Timestamps ==
    /\ [](\A sid \in DOMAIN sessions :
            /\ sessions[sid].created_at <= sessions[sid].last_accessed
            /\ sessions[sid].last_accessed <= now)
    /\ [][\A sid \in DOMAIN sessions \cap DOMAIN sessions' :
            /\ sessions'[sid].created_at = sessions[sid].created_at
            /\ sessions'[sid].last_accessed >= sessions[sid].last_accessed
            /\ sessions'[sid].last_accessed # sessions[sid].last_accessed =>
                 /\ sessions'[sid].last_accessed = now
                 /\ \E t \in Handlers :
                      /\ Leaves(t, "get_or_create_session_cs")
                      /\ h[t].session_id = sid]_vars

\* a session has been resolved again a day after its creation, and then read
\* and appended to
C18_Witness ==
    \E t \in SearchFrames :
       /\ h[t].pc = "respond"
       /\ h[t].session_id \in DOMAIN sessions
       /\ sessions[h[t].session_id].created_at = 0
       /\ sessions[h[t].session_id].last_accessed = cleanup_hours
       /\ Len(Messages(t)) = 4

\* C19: the has_conversation_history of a /search response is true exactly
\* when the request obtained a memory; it is evaluated after the request's own
\* exchange was appended, so it is true for the first request of a new session
\* too.
C19_HasConversationHistory ==
    /\ [][\A t \in Handlers :
            Leaves(t, "respond") =>
               /\ h'[t].result.has_conversation_history = (h[t].memory # NoMemory)
               /\ h[t].memory # NoMemory =>
                    /\ Len(Messages(t)) >= 2
                    /\ Messages(t)[Len(Messages(t)) - 1] = HumanMessage(h[t].user_input)]_vars
    /\ [](\A t \in SearchFrames :
            h[t].pc = "done" =>
               h[t].result.has_conversation_history = (h[t].memory # NoMemory))

\* the first request of a new session has responded true
C19_Witness ==
    \E t \in SearchFrames :
       /\ h[t].pc = "done"
       /\ started = 1
       /\ Len(Messages(t)) = 2
       /\ h[t].result.has_conversation_history = TRUE

\* t is at a `with self.lock:` it has not entered yet
Waiting(t) ==
    h[t].pc \in {"get_or_create_session", "get_memory", "clear_session",
                 "cleanup_old_sessions", "stats"}

\* C20: the lock never deadlocks.  A task holds it exactly while it is inside
\* a critical section, so none is at an acquire while holding it; every step
\* out of a critical section releases it; and under fair scheduling the
\* request that waits for the lock gets it (there is one handler in flight at
\* most), the cleanup thread, which is always waiting for the lock or inside
\* its sweep, gets it again and again, and the lock is released again and
\* again.
C20_LockNeverDeadlocks ==
    /\ [](\A t \in Tasks : lock = t <=> h[t].pc \in CriticalSections)
    /\ [](\A t \in Handlers, u \in Handlers : Waiting(t) /\ h[u].pc # "idle" => t = u)
    /\ [][\A t \in Tasks :
            /\ h[t].pc \in CriticalSections /\ h'[t].pc \notin CriticalSections
                 => lock' = Free
            /\ Waiting(t) /\ h'[t].pc # h[t].pc
                 => lock = Free /\ lock' = t]_vars
    /\ (\E t \in Handlers : Waiting(t)) ~> (lock \in Handlers)
    /\ [](Waiting(Cleaner) \/ lock = Cleaner)
    /\ []<>(lock = Cleaner)
    /\ []<>(lock = Free)

\* a request waits for the lock while the sweep holds it
C20_Witness ==
    \E t \in Handlers :
       /\ Waiting(t)
       /\ lock = Cleaner
       /\ h[Cleaner].pc = "cleanup_delete"
       /\ h[Cleaner].to_remove # {}

====
